---- MODULE Spec2Model ----
(***************************************************************************)
(* Chat-room membership and fan-out core of app.py: class Notifier (the    *)
(* room -> connections map and the generator-based relay) and the          *)
(* websocket_endpoint session loop.                                        *)
(*                                                                         *)
(* One asyncio task runs websocket_endpoint per connection.  Tasks         *)
(* interleave only at `await` suspension points, so each action below is   *)
(* the code a task runs between two suspension points.                     *)
(***************************************************************************)
EXTENDS Integers, Sequences, FiniteSets, TLC

\* ---------------------------------------------------------------- bounds
\* Number of inbound messages the sessions accept in a run.
MaxMsgs == 3
\* Longest membership list explored by the join/leave specification.
MaxLen == 3
\* Number of broadcasts made by the direct-call specification.
MaxCalls == 1

\* ------------------------------------------------------------ the universe
Conns == {"A", "B", "C"}
Rooms == {"lobby", "r"}
NoConn == "none"
NoRoom == "none"

\* The room_name path parameter of each connection's URL
\* (/ws/{room_name}/{user_name}, app.py:182): A and B chat in the lobby,
\* C in another room.
Paths(c) == IF c = "C" THEN {"r"} ELSE {"lobby"}

\* Payload shapes a client can send on receive_text (app.py:187-198).
Payloads == {"ok", "notjson", "nofields"}

\* Exceptions a failing send_text can raise: starlette.WebSocketDisconnect or
\* another exception type (RuntimeError, ConnectionClosed), depending on the
\* ASGI stack.
SendExceptions == {"WebSocketDisconnect", "Error"}

VARIABLES
    connections,    \* Notifier.connections[room_name] as a sequence
    kind,           \* per room: "missing" (no key), "dict" ({}), "list"
    generator,      \* Notifier.generator: the relay and the _notify frame in it
    pc,             \* per connection: position of its websocket_endpoint task
    room_name,      \* per connection: the room_name path parameter
    data,           \* per connection: [id, shape] of the payload being handled
    transport,      \* per connection: "open" or "broken"
    exc,            \* per connection: exception that ended the read loop
    error,          \* per connection: exception that escaped the handler
    inbox,          \* per connection: messages send_text delivered to it
    attempts,       \* per connection: send_text calls in the latest broadcast
    bcast,          \* latest broadcast: status, room, message, caller, members at start,
                    \* and the websocket whose send_text raised
    lateSends,      \* connections sent to after their session handled a disconnect
    store,          \* insert_message calls, in order
    nread,          \* inbound messages accepted so far
    ideal,          \* per room: the set built by set-insert / set-remove
    result          \* latest direct Notifier call: the call, its room, the room's
                    \* key and members before it, and its outcome

vars == <<connections, kind, generator, pc, room_name, data, transport, exc,
          error, inbox, attempts, bcast, lateSends, store, nread, ideal, result>>

\* ------------------------------------------------------------ list helpers
Range(s) == {s[i] : i \in 1..Len(s)}

Contains(s, x) == \E i \in 1..Len(s) : s[i] = x

Count(s, x) == Cardinality({i \in 1..Len(s) : s[i] = x})

NoDuplicates(s) == \A i, j \in 1..Len(s) : s[i] = s[j] => i = j

Last(s) == s[Len(s)]

Front(s) == SubSeq(s, 1, Len(s) - 1)

\* list.remove(x): drops the first occurrence of x (x must be in s).
ListRemove(s, x) ==
    LET i == CHOOSE k \in 1..Len(s) : s[k] = x /\ \A j \in 1..(k - 1) : s[j] # x
    IN  SubSeq(s, 1, i - 1) \o SubSeq(s, i + 1, Len(s))

\* Sequences over S of length at most n, and those without repetition.
SeqsUpTo(S, n) == UNION {[1..k -> S] : k \in 0..n}

DistinctSeqs(S) == {s \in SeqsUpTo(S, Cardinality(S)) : NoDuplicates(s)}

\* ------------------------------------------------------------ Notifier
\* Notifier.__init__ (app.py:52-54); startup_event primes the generator
\* (app.py:104), so it is parked at `message = yield`.
IdleGenerator ==
    [state |-> "idle", room_name |-> NoRoom, message |-> 0, owner |-> NoConn,
     living_connections |-> <<>>, websocket |-> NoConn]

NoBroadcast ==
    [status |-> "none", room_name |-> NoRoom, message |-> 0, owner |-> NoConn,
     members |-> <<>>, failed |-> NoConn, joined |-> {}]

NoCall ==
    [call |-> "none", room_name |-> NoRoom, was |-> "missing", empty |-> TRUE,
     outcome |-> "none"]

\* self.connections[room_name] on a plain dict: a room never joined raises
\* KeyError.
lookupRaisesPlainDict(knd, rn) == IF knd[rn] = "missing" THEN "KeyError" ELSE "none"

\* self.connections[room_name] (app.py:53, 65, 86): connections is a
\* defaultdict(dict), so the lookup of a room never joined raises nothing and
\* creates the key with an empty dict.
lookupRaises(knd, rn) == "none"

lookupKind(knd, rn) == IF knd[rn] = "missing" THEN "dict" ELSE knd[rn]

\* Notifier.get_members (app.py:63-67): the defaultdict lookup never raises,
\* so the except branch (None) is never taken; a missing key yields {}.
get_members(conns, rn) == conns[rn]

\* connect with the reset to a fresh list done on every call instead of only
\* for an empty room.
connectAlwaysFresh(conns, websocket, rn) ==
    [conns EXCEPT ![rn] = Append(<<>>, websocket)]

\* Notifier.connect after accept() has returned (app.py:75-77): an empty value
\* is replaced by a fresh list, then the websocket is appended unconditionally.
connect(conns, websocket, rn) ==
    [conns EXCEPT ![rn] = Append(IF Len(conns[rn]) = 0 THEN <<>> ELSE conns[rn], websocket)]

\* Notifier.remove (app.py:80-82): list.remove raises ValueError when the
\* websocket is absent; on a room never joined the value is {} and the call
\* raises AttributeError.
removeRaises(conns, knd, websocket, rn) ==
    IF knd[rn] # "list" THEN "AttributeError"
    ELSE IF ~Contains(conns[rn], websocket) THEN "ValueError"
    ELSE "none"

remove(conns, websocket, rn) ==
    IF Contains(conns[rn], websocket)
    THEN [conns EXCEPT ![rn] = ListRemove(conns[rn], websocket)]
    ELSE conns

\* ------------------------------------------------------------ initial state
Init ==
    /\ connections = [r \in Rooms |-> <<>>]
    /\ kind = [r \in Rooms |-> "missing"]
    /\ generator = IdleGenerator
    /\ pc = [c \in Conns |-> "new"]
    /\ room_name = [c \in Conns |-> NoRoom]
    /\ data = [c \in Conns |-> [id |-> 0, shape |-> "none", absent |-> FALSE]]
    /\ transport = [c \in Conns |-> "open"]
    /\ exc = [c \in Conns |-> "none"]
    /\ error = [c \in Conns |-> "none"]
    /\ inbox = [c \in Conns |-> <<>>]
    /\ attempts = [c \in Conns |-> 0]
    /\ bcast = NoBroadcast
    /\ lateSends = {}
    /\ store = <<>>
    /\ nread = 0
    /\ ideal = [r \in Rooms |-> {}]
    /\ result = NoCall

\* ------------------------------------------------------------ shared steps
\* An exception that nothing in websocket_endpoint catches ends the task.
Crash(c, e) ==
    /\ pc' = [pc EXCEPT ![c] = "crashed"]
    /\ exc' = [exc EXCEPT ![c] = e]
    /\ error' = [error EXCEPT ![c] = e]

\* except WebSocketDisconnect: notifier.remove(websocket, room_name)
\* (app.py:200-201).  An exception raised by remove escapes the handler.
HandleDisconnect(c, origin) ==
    LET raised == removeRaises(connections, kind, c, room_name[c]) IN
    /\ exc' = [exc EXCEPT ![c] = origin]
    /\ connections' = remove(connections, c, room_name[c])
    /\ pc' = [pc EXCEPT ![c] = IF raised = "none" THEN "closed" ELSE "crashed"]
    /\ error' = [error EXCEPT ![c] = raised]

\* connect returned for websocket c in room rn: if a broadcast to rn is
\* suspended in send_text, the broadcast's record notes the join.
JoinedDuring(b, c, rn) ==
    IF generator.state = "running" /\ generator.room_name = rn
    THEN [b EXCEPT !.joined = @ \cup {c}]
    ELSE b

\* _notify iterating over the members it found on entry instead of popping
\* the live list: the write-back replaces whatever was appended meanwhile.
notifySnapshot(conns, owner, living, att, b) ==
    LET rn == b.room_name IN
    IF Len(living) < Len(b.members)
    THEN LET websocket == b.members[Len(b.members) - Len(living)] IN
         /\ connections' = conns
         /\ generator' = [state |-> "running", room_name |-> rn, message |-> b.message,
                          owner |-> owner, living_connections |-> living,
                          websocket |-> websocket]
         /\ attempts' = [att EXCEPT ![websocket] = @ + 1]
         /\ lateSends' = IF exc[websocket] = "receive_text:WebSocketDisconnect"
                         THEN lateSends \cup {websocket} ELSE lateSends
         /\ pc' = [pc EXCEPT ![owner] = "push"]
         /\ bcast' = b
    ELSE /\ connections' = [conns EXCEPT ![rn] = living]
         /\ generator' = IdleGenerator
         /\ attempts' = att
         /\ lateSends' = lateSends
         /\ pc' = [pc EXCEPT ![owner] = "receive"]
         /\ bcast' = [b EXCEPT !.status = "returned"]

\* Notifier._notify (app.py:84-92) from the loop test to the next suspension:
\* either pop the last websocket and suspend in send_text, or leave the loop,
\* write living_connections back and return to the generator's yield, which
\* lets the owner's `await notifier.push(...)` return to receive_text.
notify(conns, owner, living, att, b) ==
    LET rn == b.room_name IN
    IF Len(conns[rn]) > 0
    THEN LET websocket == Last(conns[rn]) IN
         /\ connections' = [conns EXCEPT ![rn] = Front(conns[rn])]
         /\ generator' = [state |-> "running", room_name |-> rn, message |-> b.message,
                          owner |-> owner, living_connections |-> living,
                          websocket |-> websocket]
         /\ attempts' = [att EXCEPT ![websocket] = @ + 1]
         /\ lateSends' = IF exc[websocket] = "receive_text:WebSocketDisconnect"
                         THEN lateSends \cup {websocket} ELSE lateSends
         /\ pc' = [pc EXCEPT ![owner] = "push"]
         /\ bcast' = b
    ELSE /\ connections' = [conns EXCEPT ![rn] = living]
         /\ generator' = IdleGenerator
         /\ attempts' = att
         /\ lateSends' = lateSends
         /\ pc' = [pc EXCEPT ![owner] = "receive"]
         /\ bcast' = [b EXCEPT !.status = "returned"]

\* The loop of _notify written as do-while: pop, send, append, then test.
RECURSIVE drainPopFirst(_, _)
drainPopFirst(list, living) ==
    IF Len(list) = 0 THEN [raised |-> "IndexError", living |-> living]
    ELSE IF Len(list) = 1 THEN [raised |-> "none", living |-> Append(living, Last(list))]
    ELSE drainPopFirst(Front(list), Append(living, Last(list)))

\* The whole loop of _notify (app.py:85-91) when no other task runs and every
\* send_text returns: the list is popped from its end into living_connections.
RECURSIVE drain(_, _)
drain(list, living) ==
    IF Len(list) > 0
    THEN drain(Front(list), Append(living, Last(list)))
    ELSE [raised |-> "none", living |-> living]

\* controllers.insert_message(message, sender, room_name): the durable append.
insert_message(log, message, sender, rn) ==
    Append(log, [message |-> message, sender |-> sender, room_name |-> rn])

\* ------------------------------------------------------------ the sessions
\* await notifier.connect(websocket, room_name) at the top of the handler
\* (app.py:184, 73-78).  accept() suspends before any shared state is read,
\* so the step is taken when it returns.
WebsocketConnect(c, rn) ==
    /\ pc[c] = "new"
    /\ room_name' = [room_name EXCEPT ![c] = rn]
    /\ connections' = connect(connections, c, rn)
    /\ kind' = [kind EXCEPT ![rn] = "list"]
    /\ pc' = [pc EXCEPT ![c] = "receive"]
    /\ bcast' = JoinedDuring(bcast, c, rn)
    /\ UNCHANGED <<generator, data, transport, exc, error, inbox, attempts,
                   lateSends, store, nread, ideal, result>>

\* receive_text returns a payload (app.py:187-196): json.loads, then the
\* membership test; an absent sender suspends in connect's accept(), a present
\* one evaluates the arguments of insert_message and suspends in it.
ReceiveText(c, shape) ==
    /\ pc[c] = "receive"
    /\ transport[c] = "open"
    /\ nread < MaxMsgs
    /\ nread' = nread + 1
    /\ data' = [data EXCEPT ![c] =
                    [id |-> nread + 1, shape |-> shape,
                     absent |-> ~Contains(get_members(connections, room_name[c]), c)]]
    /\ IF shape = "notjson"
       THEN Crash(c, "json.loads:JSONDecodeError")
       ELSE IF ~Contains(get_members(connections, room_name[c]), c)
       THEN /\ pc' = [pc EXCEPT ![c] = "accept"]
            /\ UNCHANGED <<exc, error>>
       ELSE IF shape = "nofields"
       THEN Crash(c, "KeyError")
       ELSE /\ pc' = [pc EXCEPT ![c] = "insert"]
            /\ UNCHANGED <<exc, error>>
    /\ UNCHANGED <<connections, kind, generator, room_name, transport, inbox,
                   attempts, bcast, lateSends, store, ideal, result>>

\* The self-healing connect (app.py:194-196) resumes from accept().  The
\* websocket is already accepted: whether a second accept() returns or raises
\* is decided by the ASGI stack, so both outcomes are modelled.  When it
\* returns, the websocket is appended (app.py:75-77) and the handler goes on to
\* insert_message.
Reconnect(c, accepted) ==
    /\ pc[c] = "accept"
    /\ IF ~accepted
       THEN /\ Crash(c, "accept:RuntimeError")
            /\ UNCHANGED <<connections, bcast>>
       ELSE /\ connections' = connect(connections, c, room_name[c])
            /\ bcast' = JoinedDuring(bcast, c, room_name[c])
            /\ IF data[c].shape = "nofields"
               THEN Crash(c, "KeyError")
               ELSE /\ pc' = [pc EXCEPT ![c] = "insert"]
                    /\ UNCHANGED <<exc, error>>
    /\ UNCHANGED <<kind, generator, room_name, data, transport, inbox, attempts,
                   lateSends, store, nread, ideal, result>>

\* Notifier.push (app.py:69-71) entering the generator (app.py:56-61).  The
\* relay is one async generator shared by every room: asend on a generator that
\* has finished raises StopAsyncIteration, asend on one that is suspended inside
\* _notify raises RuntimeError (asynchronous generator is already running).
push(c) ==
    IF generator.state = "dead"
    THEN /\ Crash(c, "asend:StopAsyncIteration")
         /\ UNCHANGED <<connections, generator, attempts, lateSends, bcast>>
    ELSE IF generator.state = "running"
    THEN /\ Crash(c, "asend:RuntimeError")
         /\ UNCHANGED <<connections, generator, attempts, lateSends, bcast>>
    ELSE /\ notify(connections, c, <<>>, [x \in Conns |-> 0],
                   [status |-> "running", room_name |-> room_name[c],
                    message |-> data[c].id, owner |-> c,
                    members |-> connections[room_name[c]], failed |-> NoConn,
                    joined |-> {}])
         /\ UNCHANGED <<exc, error>>

\* The handler with the store append left to run after the broadcast (as the
\* commented-out background task of app.py:191 would): push is entered with
\* nothing stored.
InsertMessageDeferred(c, stored) ==
    /\ pc[c] = "insert"
    /\ stored
    /\ store' = store
    /\ push(c)
    /\ UNCHANGED <<kind, room_name, data, transport, inbox, nread, ideal, result>>

\* insert_message returns or raises (app.py:198); on return the handler calls
\* push (app.py:199) and runs into the generator without suspending.
InsertMessage(c, stored) ==
    /\ pc[c] = "insert"
    /\ IF ~stored
       THEN /\ Crash(c, "insert_message:Error")
            /\ UNCHANGED <<connections, generator, attempts, lateSends, bcast, store>>
       ELSE /\ store' = insert_message(store, data[c].id, c, room_name[c])
            /\ push(c)
    /\ UNCHANGED <<kind, room_name, data, transport, inbox, nread, ideal, result>>

\* await websocket.send_text(message) returns (app.py:90-91): the websocket is
\* kept in living_connections and the loop goes round.
SendTextReturns ==
    /\ generator.state = "running"
    /\ transport[generator.websocket] = "open"
    /\ inbox' = [inbox EXCEPT ![generator.websocket] = Append(@, generator.message)]
    /\ notify(connections, generator.owner,
              Append(generator.living_connections, generator.websocket),
              attempts, bcast)
    /\ UNCHANGED <<kind, room_name, data, transport, exc, error, store, nread,
                   ideal, result>>

\* await websocket.send_text(message) raises (app.py:90).  Nothing in _notify,
\* the generator or push catches it: living_connections is dropped, the
\* generator finishes, and the exception reaches the task that called push,
\* which handles it only if it is a WebSocketDisconnect (app.py:200-201).
SendTextRaises(e) ==
    /\ generator.state = "running"
    /\ transport[generator.websocket] = "broken"
    /\ generator' = [IdleGenerator EXCEPT !.state = "dead"]
    /\ bcast' = [bcast EXCEPT !.status = "raised", !.failed = generator.websocket]
    /\ IF e = "WebSocketDisconnect"
       THEN HandleDisconnect(generator.owner, "send_text:WebSocketDisconnect")
       ELSE /\ Crash(generator.owner, "send_text:Error")
            /\ UNCHANGED connections
    /\ UNCHANGED <<kind, room_name, data, transport, inbox, attempts, lateSends,
                   store, nread, ideal, result>>

\* receive_text raises WebSocketDisconnect (app.py:187, 200-201).
ReceiveDisconnect(c) ==
    /\ pc[c] = "receive"
    /\ transport[c] = "broken"
    /\ HandleDisconnect(c, "receive_text:WebSocketDisconnect")
    /\ UNCHANGED <<kind, generator, room_name, data, transport, inbox, attempts,
                   bcast, lateSends, store, nread, ideal, result>>

\* The client goes away or the network drops: from now on send_text to this
\* websocket fails and its receive_text raises WebSocketDisconnect.
TransportBreaks(c) ==
    /\ pc[c] # "new"
    /\ transport[c] = "open"
    /\ transport' = [transport EXCEPT ![c] = "broken"]
    /\ UNCHANGED <<connections, kind, generator, pc, room_name, data, exc, error,
                   inbox, attempts, bcast, lateSends, store, nread, ideal, result>>

Next ==
    \/ \E c \in Conns : \E rn \in Paths(c) : WebsocketConnect(c, rn)
    \/ \E c \in Conns, shape \in Payloads : ReceiveText(c, shape)
    \/ \E c \in Conns, accepted \in BOOLEAN : Reconnect(c, accepted)
    \/ \E c \in Conns, stored \in BOOLEAN : InsertMessage(c, stored)
    \/ SendTextReturns
    \/ \E e \in SendExceptions : SendTextRaises(e)
    \/ \E c \in Conns : ReceiveDisconnect(c)
    \/ \E c \in Conns : TransportBreaks(c)

Spec == Init /\ [][Next]_vars

TypeOK ==
    /\ \A r \in Rooms : connections[r] \in Seq(Conns)
    /\ generator.state \in {"idle", "running", "dead"}
    /\ \A c \in Conns : pc[c] \in {"new", "receive", "accept", "insert", "push",
                                   "closed", "crashed"}

\* ------------------------------------------------ one broadcast, fixed room
\* A room whose members are all in their read loop, some with a transport that
\* has already failed; one member then sends a message and nobody joins,
\* leaves or breaks while it is broadcast.
InitBroadcast ==
    /\ \E members \in DistinctSeqs(Conns) :
         /\ connections = [r \in Rooms |-> IF r = "lobby" THEN members ELSE <<>>]
         /\ pc = [c \in Conns |-> IF Contains(members, c) THEN "receive" ELSE "new"]
         /\ room_name = [c \in Conns |-> IF Contains(members, c) THEN "lobby" ELSE NoRoom]
         /\ transport \in {t \in [Conns -> {"open", "broken"}] :
                              \A c \in Conns : ~Contains(members, c) => t[c] = "open"}
    /\ kind = [r \in Rooms |-> IF r = "lobby" THEN "list" ELSE "missing"]
    /\ generator = IdleGenerator
    /\ data = [c \in Conns |-> [id |-> 0, shape |-> "none", absent |-> FALSE]]
    /\ exc = [c \in Conns |-> "none"]
    /\ error = [c \in Conns |-> "none"]
    /\ inbox = [c \in Conns |-> <<>>]
    /\ attempts = [c \in Conns |-> 0]
    /\ bcast = NoBroadcast
    /\ lateSends = {}
    /\ store = <<>>
    /\ nread = 0
    /\ ideal = [r \in Rooms |-> {}]
    /\ result = NoCall

NextBroadcast ==
    \/ \E c \in Conns : nread = 0 /\ ReceiveText(c, "ok")
    \/ \E c \in Conns : InsertMessage(c, TRUE)
    \/ SendTextReturns
    \/ \E e \in SendExceptions : SendTextRaises(e)

SpecBroadcast == InitBroadcast /\ [][NextBroadcast]_vars

\* ------------------------------------------------ join / leave sequences
\* Direct calls of Notifier.connect and Notifier.remove in any order, next to
\* the set that set-insert and set-remove would build.
JoinCall(c, rn) ==
    /\ Len(connections[rn]) < MaxLen
    /\ connections' = connect(connections, c, rn)
    /\ kind' = [kind EXCEPT ![rn] = "list"]
    /\ ideal' = [ideal EXCEPT ![rn] = @ \cup {c}]
    /\ result' = [call |-> "connect", room_name |-> rn, was |-> kind[rn],
                  empty |-> Len(connections[rn]) = 0, outcome |-> "none"]
    /\ UNCHANGED <<generator, pc, room_name, data, transport, exc, error, inbox,
                   attempts, bcast, lateSends, store, nread>>

LeaveCall(c, rn) ==
    /\ result' = [call |-> "remove", room_name |-> rn, was |-> kind[rn],
                  empty |-> Len(connections[rn]) = 0,
                  outcome |-> removeRaises(connections, kind, c, rn)]
    /\ connections' = remove(connections, c, rn)
    /\ kind' = [kind EXCEPT ![rn] = IF @ = "missing" THEN "dict" ELSE @]
    /\ ideal' = [ideal EXCEPT ![rn] = @ \ {c}]
    /\ UNCHANGED <<generator, pc, room_name, data, transport, exc, error, inbox,
                   attempts, bcast, lateSends, store, nread>>

NextJoinLeave ==
    \/ \E c \in Conns, rn \in Rooms : JoinCall(c, rn)
    \/ \E c \in Conns, rn \in Rooms : LeaveCall(c, rn)

SpecJoinLeave == Init /\ [][NextJoinLeave]_vars

\* ------------------------------------------------ direct calls
\* Notifier used by one caller at a time: connect, remove, get_members and a
\* broadcast (push, the generator and _notify run to completion, every
\* send_text returning), in any order.  Connections join and leave the room of
\* their path; get_members and broadcasts address either room.
MembersCall(rn) ==
    LET raised == lookupRaises(kind, rn) IN
    /\ result' = [call |-> "get_members", room_name |-> rn, was |-> kind[rn],
                  empty |-> Len(connections[rn]) = 0,
                  outcome |-> IF raised # "none" THEN "None"
                              ELSE IF Len(get_members(connections, rn)) = 0 THEN "empty"
                              ELSE "members"]
    /\ kind' = IF raised = "none" THEN [kind EXCEPT ![rn] = lookupKind(kind, rn)]
               ELSE kind
    /\ UNCHANGED <<connections, generator, pc, room_name, data, transport, exc,
                   error, inbox, attempts, bcast, lateSends, store, nread, ideal>>

BroadcastCall(rn) ==
    LET raised == lookupRaises(kind, rn)
        run == drain(connections[rn], <<>>)
        ok == raised = "none" /\ run.raised = "none"
    IN
    /\ nread < MaxCalls
    /\ nread' = nread + 1
    /\ result' = [call |-> "push", room_name |-> rn, was |-> kind[rn],
                  empty |-> Len(connections[rn]) = 0,
                  outcome |-> IF raised # "none" THEN raised
                              ELSE IF run.raised # "none" THEN run.raised
                              ELSE "returned"]
    /\ attempts' = [c \in Conns |-> IF raised = "none" THEN Count(run.living, c) ELSE 0]
    /\ inbox' = [c \in Conns |->
                    IF raised = "none" /\ Contains(run.living, c)
                    THEN Append(inbox[c], nread + 1) ELSE inbox[c]]
    /\ connections' = IF ok THEN [connections EXCEPT ![rn] = run.living] ELSE connections
    /\ kind' = IF ok THEN [kind EXCEPT ![rn] = "list"]
               ELSE IF raised = "none" THEN [kind EXCEPT ![rn] = lookupKind(kind, rn)]
               ELSE kind
    /\ UNCHANGED <<generator, pc, room_name, data, transport, exc, error, bcast,
                   lateSends, store, ideal>>

NextCalls ==
    \/ \E c \in Conns : \E rn \in Paths(c) : JoinCall(c, rn)
    \/ \E c \in Conns : \E rn \in Paths(c) : LeaveCall(c, rn)
    \/ \E rn \in Rooms : MembersCall(rn)
    \/ \E rn \in Rooms : BroadcastCall(rn)

SpecCalls == Init /\ [][NextCalls]_vars

\* ------------------------------------------------ concurrent joins
\* Sessions that only join: each calls Notifier.connect, is suspended in
\* `await websocket.accept()` (app.py:74) and appends itself when it resumes
\* (app.py:75-77), in any interleaving and into either room.
AcceptCalled(c, rn) ==
    /\ pc[c] = "new"
    /\ pc' = [pc EXCEPT ![c] = "accepting"]
    /\ room_name' = [room_name EXCEPT ![c] = rn]
    /\ UNCHANGED <<connections, kind, generator, data, transport, exc, error, inbox,
                   attempts, bcast, lateSends, store, nread, ideal, result>>

ConnectResumes(c) ==
    /\ pc[c] = "accepting"
    /\ connections' = connect(connections, c, room_name[c])
    /\ kind' = [kind EXCEPT ![room_name[c]] = "list"]
    /\ pc' = [pc EXCEPT ![c] = "receive"]
    /\ UNCHANGED <<generator, room_name, data, transport, exc, error, inbox,
                   attempts, bcast, lateSends, store, nread, ideal, result>>

NextConcurrentJoin ==
    \/ \E c \in Conns, rn \in Rooms : AcceptCalled(c, rn)
    \/ \E c \in Conns : ConnectResumes(c)

SpecConcurrentJoin == Init /\ [][NextConcurrentJoin]_vars

\* ==================================================================== claims

BroadcastOver == bcast.status \in {"returned", "raised"}

\* C1: after a broadcast to a room with no concurrent join or leave, the room's
\* membership is exactly the members whose transport works: every failing
\* member is gone, every other member is still there (once each).
C1_MembershipAfterBroadcast ==
    BroadcastOver =>
        /\ Range(connections["lobby"]) =
               {c \in Range(bcast.members) : transport[c] = "open"}
        /\ NoDuplicates(connections["lobby"])

\* C2: when a broadcast is over, every member of the room whose transport
\* works has received its message, wherever the failing members stand in the
\* membership list.
C2_FailureDoesNotAbortDelivery ==
    BroadcastOver =>
        \A c \in Range(bcast.members) :
            transport[c] = "open" => Contains(inbox[c], bcast.message)

\* C3: another member's delivery failure never reaches the session that
\* invoked the broadcast: no session leaves its read loop because send_text
\* failed on a websocket that is not its own.
C3_BroadcastNeverRaises ==
    \A c \in Conns :
        exc[c] \in {"send_text:WebSocketDisconnect", "send_text:Error"} =>
            bcast.failed = c

\* C4: a failed delivery in one broadcast never disables later broadcasts: no
\* session that invokes a later broadcast finds the relay finished.
C4_LaterBroadcastsStillWork ==
    \A c \in Conns : exc[c] # "asend:StopAsyncIteration"

\* C5: once a session has handled its transport's disconnect, its connection is
\* not in the room's membership and no send_text is started on it afterwards.
C5_DisconnectedStaysOut ==
    \A c \in Conns :
        exc[c] = "receive_text:WebSocketDisconnect" =>
            /\ ~Contains(connections[room_name[c]], c)
            /\ c \notin lateSends

\* C6: a session that invokes a broadcast while another broadcast is in flight
\* does not fail, so its message is not lost.
C6_OverlappingBroadcastsBothRun ==
    \A c \in Conns : exc[c] # "asend:RuntimeError"

\* C7: within one broadcast no connection is sent the message more than once.
C7_AtMostOneAttempt ==
    \A c \in Conns : attempts[c] <= 1

\* C8: a room's membership never holds the same connection twice.
C8_NoDuplicateMembers ==
    \A r \in Rooms : NoDuplicates(connections[r])

\* C9: after any sequence of connect and remove calls the membership of every
\* room is the set built by set-insert and set-remove, each member once.
C9_JoinLeaveIsSetSemantics ==
    \A r \in Rooms :
        /\ Range(connections[r]) = ideal[r]
        /\ Len(connections[r]) = Cardinality(ideal[r])

\* C10: the remove a session runs when its transport disconnects raises
\* nothing, also when its connection is not in the membership at that moment
\* (popped by a broadcast in flight, or dropped earlier).
C10_LeaveOfAbsentIsNoOp ==
    \A c \in Conns :
        exc[c] = "receive_text:WebSocketDisconnect" => error[c] = "none"

\* C11: every connection receives the messages of its room in the order in
\* which receive_text accepted them (message ids are handed out in that order).
C11_DeliveredInAcceptedOrder ==
    \A c \in Conns :
        \A i, j \in 1..Len(inbox[c]) : i < j => inbox[c][i] <= inbox[c][j]

\* C12: a broadcast in flight for one room never makes a broadcast invoked for
\* another room fail: whenever a session's push is refused because the relay
\* is busy, the relay is busy with a broadcast of that session's own room.
C12_RoomsNotSerialized ==
    [][\A c \in Conns :
          (exc[c] = "none" /\ exc'[c] = "asend:RuntimeError") =>
              generator.room_name = room_name[c]]_vars

\* C13: the message of every broadcast was handed to insert_message, with its
\* sender and room, before the broadcast started; the session that invoked the
\* broadcast does not read again while it runs; and when it has returned, every
\* member the room had at its start has been sent the payload (or has left
\* through its own disconnect).
C13_StoredThenDeliveredBeforeNextRead ==
    /\ bcast.status # "none" =>
           Contains(store, [message |-> bcast.message, sender |-> bcast.owner,
                            room_name |-> bcast.room_name])
    /\ bcast.status = "running" => pc[bcast.owner] = "push"
    /\ bcast.status = "returned" =>
           \A m \in Range(bcast.members) :
               \/ Contains(inbox[m], bcast.message)
               \/ exc[m] = "receive_text:WebSocketDisconnect"

\* A sends, the broadcast reaches both members of the room and A is back at
\* receive_text.
C13_Witness ==
    /\ bcast.status = "returned"
    /\ Len(bcast.members) >= 2
    /\ pc[bcast.owner] = "receive"
    /\ \A m \in Range(bcast.members) : Contains(inbox[m], bcast.message)

\* C14: a message whose store append failed is broadcast all the same: once
\* insert_message has failed for a session's message, a broadcast of that
\* message has been started.
C14_BroadcastDespiteStoreFailure ==
    \A c \in Conns :
        exc[c] = "insert_message:Error" =>
            \/ bcast.message = data[c].id
            \/ \E m \in Conns : Contains(inbox[m], data[c].id)

\* C15: with sessions joining concurrently and nobody leaving, the membership
\* of every room is exactly the connections whose connect has completed for
\* that room, each once, however the connect calls interleave.
Joined(r) == {c \in Conns : pc[c] = "receive" /\ room_name[c] = r}

C15_ConcurrentJoinsAllKept ==
    \A r \in Rooms :
        /\ Range(connections[r]) = Joined(r)
        /\ Len(connections[r]) = Cardinality(Joined(r))

\* A and B have both completed connect for room r, B resuming from accept()
\* before A.
C15_Witness ==
    /\ connections["r"] = <<"B", "A">>
    /\ Joined("r") = {"A", "B"}

\* C16: a session ended by a malformed payload (not JSON, or without the
\* message / sender fields) has its connection taken out of the membership.
C16_MalformedPayloadRemovesConnection ==
    \A c \in Conns :
        exc[c] \in {"json.loads:JSONDecodeError", "KeyError"} =>
            /\ pc[c] \in {"closed", "crashed"}
            /\ ~Contains(connections[room_name[c]], c)

\* C17: a broadcast to a room without members, joined before or not, returns
\* normally, calls send_text on nobody and leaves the room without members.
C17_BroadcastToEmptyRoom ==
    (result.call = "push" /\ result.empty) =>
        /\ result.outcome = "returned"
        /\ \A c \in Conns : attempts[c] = 0
        /\ Len(connections[result.room_name]) = 0

\* The latest call was a broadcast to a room nobody ever referred to.
C17_Witness ==
    /\ result.call = "push"
    /\ result.was = "missing"
    /\ result.outcome = "returned"
    /\ Len(connections[result.room_name]) = 0

\* C18: get_members of a room never joined returns an empty collection, not
\* None and not an exception, and the room then exists with no members.
C18_MembersOfUnknownRoom ==
    (result.call = "get_members" /\ result.was = "missing") =>
        /\ result.outcome = "empty"
        /\ kind[result.room_name] = "dict"
        /\ Len(connections[result.room_name]) = 0

\* The latest call was get_members on a room nobody ever referred to, while
\* the other room has members.
C18_Witness ==
    /\ result.call = "get_members"
    /\ result.was = "missing"
    /\ result.outcome = "empty"
    /\ \E r \in Rooms : Len(connections[r]) > 0

\* C19: a session that read a message while its connection was absent from its
\* room is a member of the room at the step in which, the message stored, it
\* calls push.
C19_RejoinedBeforeBroadcast ==
    [][\A c \in Conns :
          (/\ pc[c] = "insert"
           /\ data[c].absent
           /\ pc'[c] # "insert"
           /\ Len(store') > Len(store)) =>
              Contains(connections[room_name[c]], c)]_vars

\* C20: once a broadcast whose sends all returned has completed, every
\* connection that joined its room while it was suspended in a send is in the
\* room's list, unless that connection's own handler has removed it since.
C20_JoinNotLostToBroadcast ==
    bcast.status = "returned" =>
        \A c \in bcast.joined :
            \/ Contains(connections[bcast.room_name], c)
            \/ pc[c] = "closed"

\* A broadcast has completed during which a new connection joined the room;
\* the newcomer is in the list and has been sent the message.
C20_Witness ==
    /\ bcast.status = "returned"
    /\ \E c \in bcast.joined :
          /\ ~Contains(bcast.members, c)
          /\ pc[c] = "receive"
          /\ Contains(connections[bcast.room_name], c)
          /\ Contains(inbox[c], bcast.message)

====
